---- MODULE Spec2Model ----
(***************************************************************************)
(* City of Syndicates: the player progression / economy state machine of   *)
(* src/main.py.  The database is the pair (players, inventory); every      *)
(* route handler is a function from the database and the request to the   *)
(* response and the database it commits, and one action of Spec.  SpecConc *)
(* splits buy_item into the statements it sends to the database, for two   *)
(* sessions at a time.                                                     *)
(*                                                                         *)
(* money is a Float column holding whole numbers far below 2^53, so it is  *)
(* modelled as an integer.  The columns strength, agility, intelligence,   *)
(* charisma and created_at are written once by register and never read or *)
(* written again; they are left out.                                       *)
(***************************************************************************)
EXTENDS Integers, Sequences, FiniteSets, TLC

VARIABLES players, inventory, sess, crimes_ok, earned

vars == <<players, inventory, sess, crimes_ok, earned>>

(* players and inventory are the two tables; sess is the Session of each    *)
(* request in flight (SpecConc only).  crimes_ok and earned are history:    *)
(* per username, the crime requests that did not raise and the rewards      *)
(* they paid.  The program does not store them.                             *)

---------------------------------------------------------------------------
(* Bounds of the model *)

(* crime requests past the energy gate, and inventory rows, in Spec *)
MaxCrimes == 2
MaxRows == 2

(* the same, in SpecConc *)
MaxCrimesConc == 1
MaxRowsConc == 3

(* Request inputs *)
Usernames == {"al", "bo"}
Passwords == {"pw"}
Guesses == {"pw", "xx"}
ItemTypes == {"weapon", "armor", "helmet"}
ItemIds == {"brass_knuckles", "pistol", "leather_jacket", "crowbar"}
Sessions == {1, 2}

---------------------------------------------------------------------------
(* Game data *)

NoItem == [name |-> "None", price |-> 0, level |-> 0]

WEAPONS ==
  [ brass_knuckles |-> [name |-> "Brass Knuckles", price |-> 200, level |-> 1],
    pistol |-> [name |-> "Pistol", price |-> 2000, level |-> 5] ]

ARMOR ==
  [ leather_jacket |-> [name |-> "Leather Jacket", price |-> 300, level |-> 1] ]

CRIMES ==
  { [name |-> "Pickpocket", energy |-> 10, reward |-> <<20, 50>>, exp |-> 5, success |-> 90],
    [name |-> "Bank Heist", energy |-> 60, reward |-> <<500, 1000>>, exp |-> 50, success |-> 40] }

(* dict.get: the entry, or None *)
DictGet(d, k) == IF k \in DOMAIN d THEN d[k] ELSE NoItem

(* WEAPONS.get(item_id) if item_type == "weapon" else ARMOR.get(item_id) *)
LookupItem(item_type, item_id) ==
  IF item_type = "weapon" THEN DictGet(WEAPONS, item_id) ELSE DictGet(ARMOR, item_id)

(* random.random() in percent: samples on both sides of each success rate *)
RollSamples == {10, 50, 95}

(* random.random() <= crime["success"] *)
RollSucceeds(roll, c) == roll <= c.success

(* random.randint(lo, hi): the two ends of the range *)
RewardSamples(c) == {c.reward[1], c.reward[2]}

(* reward is drawn only when the roll succeeds *)
Rewards(c, roll) == IF RollSucceeds(roll, c) THEN RewardSamples(c) ELSE {0}

---------------------------------------------------------------------------
(* Security *)

hash_password(password) == <<"bcrypt", password>>

verify_password(password, hashed) == hashed = hash_password(password)

---------------------------------------------------------------------------
(* Models *)

(* PlayerDB(username, password) with the column defaults *)
NewPlayer(id, password) ==
  [ id |-> id, password |-> hash_password(password),
    money |-> 100, energy |-> 100, max_energy |-> 100,
    level |-> 1, experience |-> 0, wins |-> 0, losses |-> 0 ]

(* InventoryDB(...) ; its id is its position in the table *)
NewRow(player_id, item_type, item_id, equipped) ==
  [ player_id |-> player_id, item_type |-> item_type,
    item_id |-> item_id, equipped |-> equipped ]

(* db.query(PlayerDB).filter(username == u).first() is not None *)
Registered(u) == u \in DOMAIN players

(* primary key of the next player row *)
NextPlayerId == Cardinality(DOMAIN players) + 1

---------------------------------------------------------------------------
(* Helpers *)

(* add_exp with the level-up refilling the energy bar *)
add_exp_RefillsEnergy(player, amount) ==
  LET experience == player.experience + amount
      new_level == 1 + (experience \div 100)
  IN  IF new_level > player.level
        THEN [player EXCEPT !.experience = experience,
                            !.level = new_level,
                            !.max_energy = player.max_energy + 10,
                            !.energy = player.max_energy + 10]
        ELSE [player EXCEPT !.experience = experience]

(* add_exp without the assignment to player.level *)
add_exp_KeepsLevel(player, amount) ==
  LET experience == player.experience + amount
      new_level == 1 + (experience \div 100)
  IN  IF new_level > player.level
        THEN [player EXCEPT !.experience = experience,
                            !.max_energy = player.max_energy + 10]
        ELSE [player EXCEPT !.experience = experience]

(* add_exp with max_energy += 10 outside the if *)
add_exp_AlwaysRaisesCap(player, amount) ==
  LET experience == player.experience + amount
      new_level == 1 + (experience \div 100)
  IN  IF new_level > player.level
        THEN [player EXCEPT !.experience = experience,
                            !.level = new_level,
                            !.max_energy = player.max_energy + 10]
        ELSE [player EXCEPT !.experience = experience,
                            !.max_energy = player.max_energy + 10]

add_exp(player, amount) ==
  LET experience == player.experience + amount
      new_level == 1 + (experience \div 100)
  IN  IF new_level > player.level
        THEN [player EXCEPT !.experience = experience,
                            !.level = new_level,
                            !.max_energy = player.max_energy + 10]
        ELSE [player EXCEPT !.experience = experience]

Min(a, b) == IF a < b THEN a ELSE b

(* The ids of the rows UPDATE inventory ... WHERE player_id = .. AND        *)
(* item_type = .. matches                                                   *)
SameTypeRows(inv, player_id, item_type) ==
  { i \in 1..Len(inv) : inv[i].player_id = player_id /\ inv[i].item_type = item_type }

(* the UPDATE left out *)
Unequip_Forgotten(inv, ids) == inv

(* .update({"equipped": False}) on the rows ids *)
Unequip(inv, ids) ==
  [ i \in 1..Len(inv) |-> IF i \in ids THEN [inv[i] EXCEPT !.equipped = FALSE] ELSE inv[i] ]

---------------------------------------------------------------------------
(* State after construction: empty tables, no request in flight *)

IdleSession == [pc |-> "idle", user |-> "", item_type |-> "", item_id |-> "",
                money |-> 0, ids |-> {}]

Init ==
  /\ players = << >>
  /\ inventory = << >>
  /\ crimes_ok = [u \in Usernames |-> 0]
  /\ earned = [u \in Usernames |-> 0]
  /\ sess = [s \in Sessions |-> IdleSession]

AllIdle == \A s \in Sessions : sess[s].pc = "idle"

---------------------------------------------------------------------------
(* Routes: the response (detail) and the tables as the handler leaves them. *)
(* A handler that raises HTTPException never commits: the tables are as     *)
(* before.  Reply is a response that leaves the tables alone.               *)

Reply(detail) == [detail |-> detail, players |-> players, inventory |-> inventory]

register(username, password) ==
  IF Registered(username)
    THEN Reply("Username taken")
    ELSE [ detail |-> "Registered",
           players |-> [u \in DOMAIN players \cup {username} |->
                          IF u = username THEN NewPlayer(NextPlayerId, password)
                                          ELSE players[u]],
           inventory |-> Append(inventory,
                           NewRow(NextPlayerId, "weapon", "brass_knuckles", TRUE)) ]

login(username, password) ==
  IF ~Registered(username) THEN Reply("Player not found")
  ELSE IF ~verify_password(password, players[username].password)
    THEN Reply("Invalid credentials")
    ELSE Reply("Login successful")

(* crime without user.losses += 1 *)
CrimeOutcome_LossNotCounted(user, c, roll, reward) ==
  LET spent == [user EXCEPT !.energy = user.energy - c.energy]
  IN  IF RollSucceeds(roll, c)
        THEN add_exp([spent EXCEPT !.money = spent.money + reward,
                                   !.wins = spent.wins + 1], c.exp)
        ELSE spent

(* The player row after a crime that passed the energy gate *)
CrimeOutcome(user, c, roll, reward) ==
  LET spent == [user EXCEPT !.energy = user.energy - c.energy]
  IN  IF RollSucceeds(roll, c)
        THEN add_exp([spent EXCEPT !.money = spent.money + reward,
                                   !.wins = spent.wins + 1], c.exp)
        ELSE [spent EXCEPT !.losses = spent.losses + 1]

(* user.energy <= crime["energy"] *)
EnergyGate_OffByOne(user, c) == user.energy <= c.energy

(* user.energy < crime["energy"] *)
EnergyGate(user, c) == user.energy < c.energy

crime(username, c, roll, reward) ==
  IF ~Registered(username) THEN Reply("Player not found")
  ELSE IF EnergyGate(players[username], c) THEN Reply("Not enough energy")
  ELSE [ detail |-> IF RollSucceeds(roll, c) THEN "SUCCESS" ELSE "FAILED",
         players |-> [players EXCEPT
                        ![username] = CrimeOutcome(players[username], c, roll, reward)],
         inventory |-> inventory ]

(* rest without the min *)
RestOutcome_Uncapped(user) == [user EXCEPT !.energy = user.energy + 40]

RestOutcome(user) == [user EXCEPT !.energy = Min(user.max_energy, user.energy + 40)]

rest(username) ==
  IF ~Registered(username) THEN Reply("Player not found")
  ELSE [ detail |-> "energy",
         players |-> [players EXCEPT ![username] = RestOutcome(players[username])],
         inventory |-> inventory ]

(* the money compared with the item's level, not its price *)
MoneyGate_ByLevel(money, item) == money < item.level

(* player.money < item["price"] *)
MoneyGate(money, item) == money < item.price

(* inventory after the UPDATE of the rows ids and the INSERT of buy_item *)
BuyInventory(inv, ids, player_id, item_type, item_id) ==
  Append(Unequip(inv, ids), NewRow(player_id, item_type, item_id, TRUE))

buy_item(username, item_id, item_type) ==
  LET item == LookupItem(item_type, item_id)
  IN  IF ~Registered(username) THEN Reply("Player not found")
      ELSE IF item = NoItem THEN Reply("Item not found")
      ELSE IF MoneyGate(players[username].money, item) THEN Reply("Not enough money")
      ELSE [ detail |-> "Bought",
             players |-> [players EXCEPT ![username].money = @ - item.price],
             inventory |-> BuyInventory(inventory,
                             SameTypeRows(inventory, players[username].id, item_type),
                             players[username].id, item_type, item_id) ]

---------------------------------------------------------------------------
(* The requests of Spec, one at a time, with their inputs *)

(* Crime requests that passed the energy gate, over all players *)
CrimesSoFar == crimes_ok["al"] + crimes_ok["bo"]

Commit(r) ==
  /\ players' = r.players
  /\ inventory' = r.inventory

Register ==
  /\ AllIdle
  /\ \E u \in Usernames, p \in Passwords : Commit(register(u, p))
  /\ UNCHANGED <<sess, crimes_ok, earned>>

Login ==
  /\ AllIdle
  /\ \E u \in Usernames, p \in Guesses : Commit(login(u, p))
  /\ UNCHANGED <<sess, crimes_ok, earned>>

CrimeUpTo(bound) ==
  /\ AllIdle
  /\ \E u \in Usernames, c \in CRIMES, roll \in RollSamples :
       \E reward \in Rewards(c, roll) :
         LET r == crime(u, c, roll, reward)
         IN  /\ r.detail \in {"SUCCESS", "FAILED"} => CrimesSoFar < bound
             /\ Commit(r)
             /\ crimes_ok' = IF r.detail \in {"SUCCESS", "FAILED"}
                               THEN [crimes_ok EXCEPT ![u] = @ + 1]
                               ELSE crimes_ok
             /\ earned' = IF r.detail = "SUCCESS"
                            THEN [earned EXCEPT ![u] = @ + reward]
                            ELSE earned
  /\ UNCHANGED sess

Crime == CrimeUpTo(MaxCrimes)

Rest ==
  /\ AllIdle
  /\ \E u \in Usernames : Commit(rest(u))
  /\ UNCHANGED <<sess, crimes_ok, earned>>

BuyItem ==
  /\ AllIdle
  /\ \E u \in Usernames, i \in ItemIds, t \in ItemTypes :
       LET r == buy_item(u, i, t)
       IN  /\ r.detail = "Bought" => Len(inventory) < MaxRows
           /\ Commit(r)
  /\ UNCHANGED <<sess, crimes_ok, earned>>

Next == Register \/ Login \/ Crime \/ Rest \/ BuyItem

Spec == Init /\ [][Next]_vars

---------------------------------------------------------------------------
(* buy_item statement by statement.  Each request has its own Session        *)
(* (get_db) and nothing else: the tables are shared, under the database's    *)
(* READ COMMITTED isolation (PostgreSQL, which DATABASE_URL is rewritten     *)
(* for).  A session sees what is committed when its statement runs; its own  *)
(* writes show to the others at its COMMIT.                                  *)

InFlight == Cardinality({s \in Sessions : sess[s].pc # "idle"})

(* player = get_player(data.username, db): the row is loaded into the session *)
BuyLoad(s) ==
  /\ sess[s].pc = "idle"
  /\ Len(inventory) + InFlight < MaxRowsConc
  /\ \E u \in Usernames, i \in ItemIds, t \in ItemTypes :
       /\ Registered(u)
       /\ sess' = [sess EXCEPT ![s] = [pc |-> "loaded", user |-> u, item_type |-> t,
                                       item_id |-> i, money |-> players[u].money,
                                       ids |-> {}]]
  /\ UNCHANGED <<players, inventory, crimes_ok, earned>>

(* the catalog lookup, the money check and player.money -= item["price"],     *)
(* on the session's copy of the row (autoflush is off: nothing is sent)      *)
BuyCheck(s) ==
  /\ sess[s].pc = "loaded"
  /\ LET item == LookupItem(sess[s].item_type, sess[s].item_id)
     IN  IF item = NoItem \/ MoneyGate(sess[s].money, item)
           THEN sess' = [sess EXCEPT ![s] = IdleSession]
           ELSE sess' = [sess EXCEPT ![s].pc = "checked",
                                     ![s].money = @ - item.price]
  /\ UNCHANGED <<players, inventory, crimes_ok, earned>>

(* UPDATE inventory SET equipped = false WHERE player_id = .. AND item_type   *)
(* = ..: the rows it matches are those committed now; it waits while         *)
(* another session holds an uncommitted update of one of them                 *)
BuyUnequip(s) ==
  /\ sess[s].pc = "checked"
  /\ LET ids == SameTypeRows(inventory, players[sess[s].user].id, sess[s].item_type)
     IN  /\ \A t \in Sessions \ {s} : sess[t].pc = "updated" => sess[t].ids \cap ids = {}
         /\ sess' = [sess EXCEPT ![s].pc = "updated", ![s].ids = ids]
  /\ UNCHANGED <<players, inventory, crimes_ok, earned>>

(* db.add(InventoryDB(...)); db.commit(): the flush writes the session's      *)
(* money into the player row and inserts the new row, then all of the         *)
(* session's writes are committed                                             *)
BuyCommit(s) ==
  /\ sess[s].pc = "updated"
  /\ players' = [players EXCEPT ![sess[s].user].money = sess[s].money]
  /\ inventory' = BuyInventory(inventory, sess[s].ids, players[sess[s].user].id,
                               sess[s].item_type, sess[s].item_id)
  /\ sess' = [sess EXCEPT ![s] = IdleSession]
  /\ UNCHANGED <<crimes_ok, earned>>

ConcCrime == CrimeUpTo(MaxCrimesConc)

Load == \E s \in Sessions : BuyLoad(s)

Check == \E s \in Sessions : BuyCheck(s)

UnequipStep == \E s \in Sessions : BuyUnequip(s)

CommitStep == \E s \in Sessions : BuyCommit(s)

NextConc == Register \/ ConcCrime \/ Rest \/ Load \/ Check \/ UnequipStep \/ CommitStep

SpecConc == Init /\ [][NextConc]_vars

---------------------------------------------------------------------------
(* Properties *)

Rows == 1..Len(inventory)

(* C1: for every player and every item_type, at most one inventory row of  *)
(* that player with that item_type is equipped.                            *)
C1_OneEquippedPerType ==
  \A i \in Rows, j \in Rows :
    ( /\ i # j
      /\ inventory[i].player_id = inventory[j].player_id
      /\ inventory[i].item_type = inventory[j].item_type
      /\ inventory[i].equipped )
    => ~inventory[j].equipped

(* a player holds two rows of one type after a purchase, the later equipped *)
C1_Witness ==
  \E i \in Rows, j \in Rows :
    /\ i < j
    /\ inventory[i].player_id = inventory[j].player_id
    /\ inventory[i].item_type = inventory[j].item_type
    /\ ~inventory[i].equipped
    /\ inventory[j].equipped

(* C2: every player has 0 <= energy <= max_energy.                         *)
C2_EnergyWithinBounds ==
  \A u \in DOMAIN players :
    /\ 0 <= players[u].energy
    /\ players[u].energy <= players[u].max_energy

(* after two crimes and a level-up that raised max_energy to 110, rest has *)
(* filled the energy up to it                                              *)
C2_Witness ==
  \E u \in DOMAIN players :
    /\ players[u].level = 2
    /\ players[u].max_energy = 110
    /\ players[u].energy = 110

(* C5: every player has level = 1 + (experience div 100), and level and    *)
(* experience never decrease.                                              *)
C5_LinearLevel ==
  /\ [](\A u \in DOMAIN players :
          players[u].level = 1 + (players[u].experience \div 100))
  /\ [][\A u \in DOMAIN players :
          /\ u \in DOMAIN players'
          /\ players'[u].level >= players[u].level
          /\ players'[u].experience >= players[u].experience]_vars

(* a player has reached level 2 *)
C5_Witness ==
  \E u \in DOMAIN players : players[u].level = 2 /\ players[u].experience = 100

(* C8: every player has max_energy = 100 + 10 * (level - 1); one add_exp   *)
(* call with a catalog crime's exp raises the level by at most one.        *)
C8_MaxEnergyByLevel ==
  /\ \A c \in CRIMES : c.exp < 100
  /\ \A u \in DOMAIN players :
       /\ players[u].max_energy = 100 + 10 * (players[u].level - 1)
       /\ \A c \in CRIMES :
            LET after == add_exp(players[u], c.exp)
            IN  /\ after.level - players[u].level \in {0, 1}
                /\ after.max_energy - players[u].max_energy
                     = 10 * (after.level - players[u].level)

(* a player has levelled up by winning two Bank Heists                      *)
C8_Witness ==
  \E u \in DOMAIN players :
    /\ players[u].level = 2
    /\ players[u].max_energy = 110
    /\ players[u].wins = 2

(* The fields of a player row other than energy *)
SameButEnergy(a, b) == [a EXCEPT !.energy = 0] = [b EXCEPT !.energy = 0]

(* C3: a step raises a player's energy only if it is a rest request for    *)
(* that player; rest sets energy to min(max_energy, energy + 40) and       *)
(* leaves every other field, every other player and the inventory as they  *)
(* were.                                                                   *)
C3_EnergyOnlyByRest ==
  /\ [][\A u \in DOMAIN players :
          (u \in DOMAIN players' /\ players'[u].energy > players[u].energy)
          => (players' = rest(u).players /\ inventory' = rest(u).inventory)]_vars
  /\ [](\A u \in DOMAIN players :
          LET r == rest(u)
              capped == IF players[u].energy + 40 < players[u].max_energy
                          THEN players[u].energy + 40 ELSE players[u].max_energy
          IN  /\ r.players[u].energy = capped
              /\ SameButEnergy(r.players[u], players[u])
              /\ \A v \in DOMAIN players \ {u} : r.players[v] = players[v]
              /\ DOMAIN r.players = DOMAIN players
              /\ r.inventory = inventory)

(* a player has levelled up in a crime that left the energy at 20: the     *)
(* level-up did not refill it, and only a rest before it made it possible  *)
C3_Witness ==
  \E u \in DOMAIN players :
    /\ players[u].level = 2
    /\ players[u].max_energy = 110
    /\ players[u].energy = 20

(* C4: a crime whose cost exceeds the player's energy ends in "Not enough  *)
(* energy" with every player row unchanged; otherwise it does not raise    *)
(* and the energy falls by exactly the cost (10 Pickpocket, 60 Bank        *)
(* Heist).                                                                 *)
C4_EnergyGated ==
  \A u \in DOMAIN players, c \in CRIMES, roll \in RollSamples :
    \A reward \in Rewards(c, roll) :
      LET r == crime(u, c, roll, reward)
          cost == IF c.name = "Pickpocket" THEN 10 ELSE 60
      IN  IF players[u].energy < cost
            THEN /\ r.detail = "Not enough energy"
                 /\ r.players = players
            ELSE /\ r.detail \in {"SUCCESS", "FAILED"}
                 /\ r.players[u].energy = players[u].energy - cost

(* a Bank Heist has left a player with energy 40: the next Bank Heist is   *)
(* refused, a Pickpocket is not                                            *)
C4_Witness ==
  \E u \in DOMAIN players :
    /\ crimes_ok[u] = 1
    /\ players[u].energy = 40
    /\ \E c \in CRIMES : players[u].energy < c.energy
    /\ \E c \in CRIMES : players[u].energy >= c.energy

(* C6: a crime that passes the energy gate is a SUCCESS (wins + 1, losses  *)
(* unchanged, experience + the crime's exp, money + a reward in the        *)
(* crime's range) or a FAILED (losses + 1; wins, money, experience, level  *)
(* and max_energy unchanged); wins + losses is the number of the player's  *)
(* crime requests that did not raise.                                      *)
C6_CrimeOutcomes ==
  \A u \in DOMAIN players :
    /\ players[u].wins + players[u].losses = crimes_ok[u]
    /\ \A c \in CRIMES, roll \in RollSamples :
         \A reward \in Rewards(c, roll) :
           LET r == crime(u, c, roll, reward)
               before == players[u]
               after == r.players[u]
               exp == IF c.name = "Pickpocket" THEN 5 ELSE 50
               range == IF c.name = "Pickpocket" THEN 20..50 ELSE 500..1000
           IN  r.detail # "Not enough energy" =>
                 \/ /\ r.detail = "SUCCESS"
                    /\ after.wins = before.wins + 1
                    /\ after.losses = before.losses
                    /\ after.experience = before.experience + exp
                    /\ (after.money - before.money) \in range
                 \/ /\ r.detail = "FAILED"
                    /\ after.losses = before.losses + 1
                    /\ after.wins = before.wins
                    /\ after.money = before.money
                    /\ after.experience = before.experience
                    /\ after.level = before.level
                    /\ after.max_energy = before.max_energy

(* a player has won one crime and lost another *)
C6_Witness ==
  \E u \in DOMAIN players : players[u].wins = 1 /\ players[u].losses = 1

(* C7: buy_item succeeds exactly when the item is found and money >=       *)
(* price; then money falls by the price, every earlier row is kept, those  *)
(* of the player with the same item_type unequipped, and one new equipped  *)
(* row is added.  Otherwise ("Item not found", "Not enough money") the     *)
(* tables are unchanged.  Hence money >= 0 for every player.  An item is   *)
(* found when its item_id is a key of the table the item_type selects:     *)
(* WEAPONS for "weapon", ARMOR for any other (C10 is about the item_types  *)
(* that name neither table).                                               *)
C7_AllOrNothingPurchase ==
  \A u \in DOMAIN players :
    /\ players[u].money >= 0
    /\ \A i \in ItemIds, t \in ItemTypes :
         LET r == buy_item(u, i, t)
             found == IF t = "weapon" THEN i \in DOMAIN WEAPONS ELSE i \in DOMAIN ARMOR
             price == IF t = "weapon" THEN WEAPONS[i].price ELSE ARMOR[i].price
             n == Len(inventory)
         IN  /\ (r.detail = "Bought") <=> (found /\ players[u].money >= price)
             /\ ~found => r.detail = "Item not found"
             /\ (found /\ players[u].money < price) => r.detail = "Not enough money"
             /\ r.detail # "Bought" => (r.players = players /\ r.inventory = inventory)
             /\ r.detail = "Bought" =>
                  /\ r.players = [players EXCEPT ![u].money = players[u].money - price]
                  /\ Len(r.inventory) = n + 1
                  /\ r.inventory[n + 1] =
                       [player_id |-> players[u].id, item_type |-> t,
                        item_id |-> i, equipped |-> TRUE]
                  /\ \A k \in 1..n :
                       r.inventory[k] =
                         IF inventory[k].player_id = players[u].id
                              /\ inventory[k].item_type = t
                           THEN [inventory[k] EXCEPT !.equipped = FALSE]
                           ELSE inventory[k]

(* a player has bought a second weapon with exactly the money they had:    *)
(* the earlier weapon is unequipped and nothing more can be bought         *)
C7_Witness ==
  \E u \in DOMAIN players :
    /\ players[u].money = 0
    /\ \E i \in Rows, j \in Rows :
         /\ i < j
         /\ inventory[i].player_id = players[u].id
         /\ inventory[j].player_id = players[u].id
         /\ inventory[i].item_type = inventory[j].item_type
         /\ ~inventory[i].equipped
         /\ inventory[j].equipped

(* The catalog price of an inventory row, whatever table holds its item_id *)
RowPrice(row) ==
  IF row.item_id \in DOMAIN WEAPONS THEN WEAPONS[row.item_id].price
  ELSE IF row.item_id \in DOMAIN ARMOR THEN ARMOR[row.item_id].price
  ELSE 0

RECURSIVE PriceSum(_, _)
PriceSum(inv, ids) ==
  IF ids = {} THEN 0
  ELSE LET i == CHOOSE k \in ids : TRUE
       IN  RowPrice(inv[i]) + PriceSum(inv, ids \ {i})

(* The rows buy_item added for a player: all but the one register gave     *)
BoughtRows(player_id) ==
  LET mine == { i \in Rows : inventory[i].player_id = player_id }
  IN  { i \in mine : \E k \in mine : k < i }

(* C9: two interleaved buy_item requests end as some sequential order of   *)
(* them would: once both are over, the money deducted from a player is the *)
(* sum of the prices of the rows added (what the player has is the 100 of  *)
(* register plus the rewards minus those prices, never below 0), and at    *)
(* most one row per player and item_type is equipped.                      *)
C9_BuysSerialise ==
  AllIdle =>
    /\ \A u \in DOMAIN players :
         /\ players[u].money
              = 100 + earned[u] - PriceSum(inventory, BoughtRows(players[u].id))
         /\ players[u].money >= 0
    /\ C1_OneEquippedPerType

(* C10: every inventory row is a "weapon" with an item_id of WEAPONS or an *)
(* "armor" with an item_id of ARMOR; a buy_item request with another       *)
(* item_type, or with an item_id that is not of its item_type, ends in     *)
(* "Item not found", creates no row and deducts no money.                  *)
C10_RowsMatchCatalog ==
  LET matches(t, i) == \/ t = "weapon" /\ i \in DOMAIN WEAPONS
                       \/ t = "armor" /\ i \in DOMAIN ARMOR
  IN  /\ \A k \in Rows : matches(inventory[k].item_type, inventory[k].item_id)
      /\ \A u \in DOMAIN players, i \in ItemIds, t \in ItemTypes :
           ~matches(t, i) =>
             LET r == buy_item(u, i, t)
             IN  /\ r.detail = "Item not found"
                 /\ r.inventory = inventory
                 /\ r.players = players

====
